---- MODULE Spec2Model ----
(***************************************************************************)
(* Sub-Track record store (src/src/db.ts): one sql.js database held in     *)
(* module state and serialised as a whole into localforage under DB_KEY    *)
(* after every mutating call.                                              *)
(*                                                                         *)
(* Spec drives the store one call at a time (each call runs to its end     *)
(* before the next one starts), across page reloads.  TransferSpec moves   *)
(* an exported file to another browser.  ViewSpec drives the handlers of   *)
(* the App component (src/unnamed/part_004) and its list of entries.       *)
(* TrendsSpec evaluates the aggregations of the Trends section over lists  *)
(* of entries, windows and days, FeelingsSpec the feeling counts under the *)
(* substance filter.  PageSpec pages through a list longer than a page.    *)
(* ConcSpec and SubmitSpec let calls of the store overlap at their awaits. *)
(* SwSpec drives the fetch listener of public/sw.js, LocateSpec the probe  *)
(* for the wasm file (locateWasm).                                         *)
(***************************************************************************)
EXTENDS Integers, Sequences, FiniteSets, TLC

\* ------------------------------------------------------------------ bounds
MaxId == 2       \* ids are 1..MaxId
MaxRows == 2     \* the logs table is not grown past MaxRows rows
MaxTrendLen == 2 \* the trends are computed over at most MaxTrendLen entries
MaxCalls == 2    \* at most MaxCalls calls of the store overlap

\* ------------------------------------------------------------- data domain
Null == "<null>"                     \* JavaScript null, SQL NULL
Undefined == "<undefined>"           \* JavaScript undefined
Ids == 1..MaxId
\* Timestamps are Date.prototype.toISOString() texts (fixed width, UTC),
\* listed here in the order SQLite's TEXT comparison gives them.
IsoTexts == <<"2024-01-01T08:00:00.000Z", "2024-01-02T08:00:00.000Z",
              "2024-01-03T08:00:00.000Z", "2024-01-04T08:00:00.000Z">>
Timestamps == {IsoTexts[k] : k \in 1..Len(IsoTexts)}
TextRank(t) == CHOOSE k \in 1..Len(IsoTexts) : IsoTexts[k] = t

\* What the callers log: an entry with no optional column at the earlier
\* time, and one with every optional column at the later time.
Entries ==
    { [substance |-> "Alcohol", notes |-> Null, feelings |-> Null,
       dosage |-> Null, timestamp |-> IsoTexts[1]],
      [substance |-> "Nicotine", notes |-> "n", feelings |-> "[\"happy\"]",
       dosage |-> "5mg", timestamp |-> IsoTexts[2]] }

\* export type Row
Row(i, e) ==
    [id |-> i, substance |-> e.substance, notes |-> e.notes,
     feelings |-> e.feelings, dosage |-> e.dosage, timestamp |-> e.timestamp]

Rows == { Row(i, e) : i \in Ids, e \in Entries }

\* ------------------------------------------------------------ module state
VARIABLES
    SQL,          \* let SQL: the sql.js engine, Null until initSqlJs resolved
    db,           \* let db: the open database, NoDb while null
    initialized,  \* let initialized
    stored,       \* what localforage holds under DB_KEY, NoBlob when nothing
    last,         \* the call that ended last: its name, argument and outcome
    download,     \* the file the last "Export Data" click saved, if any
    logs,         \* App: const [logs, setLogs], the list the view shows
    substance,    \* App: const [substance, setSubstance], the form's field
    now,          \* the clock: new Date() is the instant IsoTexts[now]
    trendDays,    \* App: const [trendDays, setTrendDays]
    trendFilterSubstance, \* App: const [trendFilterSubstance, ...]
    currentPage,  \* App: const [currentPage, setCurrentPage]
    cache,        \* sw.js: what the cache CACHE_NAME holds, by URL
    event,        \* sw.js: the fetch event being answered
    puts,         \* sw.js: the cache.put calls started and not yet done
    server,       \* what the origin answers to HEAD /sql-wasm.wasm
    wasmUrl,      \* what locateWasm() returned, NotLocated before it has
    calls,        \* db.ts: the calls in progress, each where it awaits
    pending       \* localforage: the setItem writes issued and not yet applied

\* what the Trends section and the pagination keep
panel == <<trendDays, trendFilterSubstance, currentPage>>

\* the service worker, the wasm probe, and the calls that overlap
others == <<cache, event, puts, server, wasmUrl, calls, pending>>

vars == <<SQL, db, initialized, stored, last, download, logs, substance, now, panel, others>>

\* the page and its store
page == <<SQL, db, initialized, stored, last, download, logs, substance, now, panel>>

\* the state of the page outside db.ts
app == <<logs, substance, now, panel, others>>

NoDb == [kind |-> "null"]
NoBlob == [kind |-> "none"]
NoArg == [kind |-> "none"]
NoDownload == [kind |-> "none"]

\* ------------------------------------------------------- the sql.js engine
\* new SQL.Database(): an empty database, no table in it
NewDatabase == [kind |-> "db", hasLogs |-> FALSE, logs |-> <<>>]

\* OpenDatabase that ignores the bytes it is given
OpenDatabaseNoRows(arr) ==
    [kind |-> IF arr.kind = "sqlite" THEN "db" ELSE "notadb",
     hasLogs |-> arr.hasLogs, logs |-> <<>>]

\* new SQL.Database(arr): the database an SQLite file holds; bytes that
\* are no SQLite file give a handle ("notadb") with nothing to read in it
OpenDatabase(arr) ==
    [kind |-> IF arr.kind = "sqlite" THEN "db" ELSE "notadb",
     hasLogs |-> arr.hasLogs, logs |-> arr.logs]

\* db.export(): the file of the database (schema and rows, rowid order)
dbExport(d) ==
    [kind |-> IF d.kind = "db" THEN "sqlite" ELSE "bytes",
     hasLogs |-> d.hasLogs, logs |-> d.logs]

\* CREATE TABLE IF NOT EXISTS logs (...)
CreateTableIfNotExists(d) ==
    IF d.hasLogs THEN d ELSE [d EXCEPT !.hasLogs = TRUE, !.logs = <<>>]

HasId(d, i) == \E k \in 1..Len(d.logs) : d.logs[k].id = i

\* ConstraintsHold for a table declared without PRIMARY KEY
ConstraintsHoldNoKey(d, row) ==
    /\ row.substance # Null
    /\ row.timestamp # Null

\* id TEXT PRIMARY KEY, substance TEXT NOT NULL, timestamp TEXT NOT NULL
ConstraintsHold(d, row) ==
    /\ ~HasId(d, row.id)
    /\ row.substance # Null
    /\ row.timestamp # Null

\* row.notes ?? null
OrNull(x) == IF x = Undefined THEN Null ELSE x

\* InsertRow with notes and dosage bound to each other's placeholder
InsertRowSwapped(d, row) ==
    [d EXCEPT !.logs = Append(@,
        [id |-> row.id, substance |-> row.substance, notes |-> OrNull(row.dosage),
         feelings |-> OrNull(row.feelings), dosage |-> OrNull(row.notes),
         timestamp |-> row.timestamp])]

\* InsertRow into a table emptied first
InsertRowReplacing(d, row) ==
    [d EXCEPT !.logs =
        <<[id |-> row.id, substance |-> row.substance, notes |-> OrNull(row.notes),
           feelings |-> OrNull(row.feelings), dosage |-> OrNull(row.dosage),
           timestamp |-> row.timestamp]>>]

\* INSERT INTO logs (...) VALUES (?, ?, ?, ?, ?, ?): the new row gets the
\* next rowid
InsertRow(d, row) ==
    [d EXCEPT !.logs = Append(@,
        [id |-> row.id, substance |-> row.substance, notes |-> OrNull(row.notes),
         feelings |-> OrNull(row.feelings), dosage |-> OrNull(row.dosage),
         timestamp |-> row.timestamp])]

\* UpdateRows without its WHERE clause
UpdateRowsNoWhere(d, row) ==
    [d EXCEPT !.logs = [k \in 1..Len(@) |->
        [id |-> @[k].id, substance |-> row.substance, notes |-> OrNull(row.notes),
         feelings |-> OrNull(row.feelings), dosage |-> OrNull(row.dosage),
         timestamp |-> row.timestamp]]]

\* UpdateRows adding the row when no row has its id
UpdateRowsOrInsert(d, row) ==
    IF \E k \in 1..Len(d.logs) : d.logs[k].id = row.id
    THEN [d EXCEPT !.logs = [k \in 1..Len(@) |->
            IF @[k].id = row.id
            THEN [id |-> @[k].id, substance |-> row.substance, notes |-> OrNull(row.notes),
                  feelings |-> OrNull(row.feelings), dosage |-> OrNull(row.dosage),
                  timestamp |-> row.timestamp]
            ELSE @[k]]]
    ELSE [d EXCEPT !.logs = Append(@,
            [id |-> row.id, substance |-> row.substance, notes |-> OrNull(row.notes),
             feelings |-> OrNull(row.feelings), dosage |-> OrNull(row.dosage),
             timestamp |-> row.timestamp])]

\* UPDATE logs SET substance = ?, notes = ?, feelings = ?, dosage = ?,
\* timestamp = ? WHERE id = ?
UpdateRows(d, row) ==
    [d EXCEPT !.logs = [k \in 1..Len(@) |->
        IF @[k].id = row.id
        THEN [id |-> @[k].id, substance |-> row.substance, notes |-> OrNull(row.notes),
              feelings |-> OrNull(row.feelings), dosage |-> OrNull(row.dosage),
              timestamp |-> row.timestamp]
        ELSE @[k]]]

\* DELETE FROM logs WHERE id = ?
DeleteRows(d, id) ==
    [d EXCEPT !.logs = SelectSeq(@, LAMBDA r : r.id # id)]

\* DELETE FROM logs
DeleteAllRows(d) == [d EXCEPT !.logs = <<>>]

\* ORDER BY timestamp DESC: r goes behind every row that is not older, so
\* rows of one timestamp stay in rowid order
InsertDesc(sorted, r) ==
    LET n == Cardinality({k \in 1..Len(sorted) : TextRank(sorted[k].timestamp) >= TextRank(r.timestamp)})
    IN  SubSeq(sorted, 1, n) \o <<r>> \o SubSeq(sorted, n + 1, Len(sorted))

RECURSIVE OrderByTimestampDesc(_)
OrderByTimestampDesc(rows) ==
    IF rows = <<>> THEN <<>>
    ELSE InsertDesc(OrderByTimestampDesc(SubSeq(rows, 1, Len(rows) - 1)), rows[Len(rows)])

\* SelectAll without its ORDER BY
SelectAllUnordered(d) == d.logs

\* SELECT id, substance, notes, feelings, dosage, timestamp FROM logs
\* ORDER BY timestamp DESC, mapped to Row objects
SelectAll(d) == OrderByTimestampDesc(d.logs)

\* --------------------------------------------------------------- the store
\* What a call leaves behind for the properties to read: its name and
\* argument, whether it resolved (ok) or rejected, how its write to
\* localforage went ("none" when it made none), and the number of rows the
\* table held when the call reached its statement.
Call(op, arg, ok, write, before) ==
    [op |-> op, arg |-> arg, ok |-> ok, write |-> write, before |-> before]

RowCount(d) == IF d = NoDb THEN 0 ELSE Len(d.logs)

\* localforage.setItem may reject (quota exceeded), db.export() may throw
Writes == {"ok", "failed"}

\* ensureInit() past its first line: the database a session opens from what
\* localforage holds
LoadedDb ==
    CreateTableIfNotExists(
        IF stored # NoBlob THEN OpenDatabase(stored) ELSE NewDatabase)

\* ensureInit without its first line, if (initialized) return
ensureInitAlways == [SQL |-> "sql.js", db |-> LoadedDb]

\* async function ensureInit(): SQL and db as the call leaves them when it
\* resolves
ensureInit ==
    IF initialized
    THEN [SQL |-> SQL, db |-> db]
    ELSE [SQL |-> "sql.js", db |-> LoadedDb]

\* async function persist(): what DB_KEY holds afterwards; a failed write is
\* caught and logged, and the blob stays what it was
persist(d, w) ==
    IF d = NoDb THEN stored
    ELSE IF w = "ok" THEN dbExport(d) ELSE stored

\* the database answers statements: a file that is not an SQLite database
\* opens, and every statement on it throws "file is not a database"
Usable(d) == d.kind = "db"

\* SQL = await initSqlJs(...) rejects (the wasm file cannot be loaded): the
\* call rejects with nothing assigned
InitSqlJsRejects(op, arg) ==
    /\ ~initialized
    /\ last' = Call(op, arg, FALSE, "none", 0)
    /\ UNCHANGED <<SQL, db, initialized, stored>>

\* a statement of the call throws: ensureInit() has run, nothing is written
Rejects(op, arg) ==
    /\ SQL' = ensureInit.SQL
    /\ db' = ensureInit.db
    /\ initialized' = TRUE
    /\ last' = Call(op, arg, FALSE, "none", RowCount(ensureInit.db))
    /\ UNCHANGED stored

\* export async function init()
dbInit ==
    \/ InitSqlJsRejects("init", NoArg)
    \/ /\ SQL' = ensureInit.SQL
       /\ db' = ensureInit.db
       /\ initialized' = TRUE
       /\ last' = Call("init", NoArg, TRUE, "none", RowCount(ensureInit.db))
       /\ UNCHANGED stored

\* export async function getAllLogs()
dbGetAll ==
    \/ InitSqlJsRejects("getAllLogs", NoArg)
    \/ /\ Usable(ensureInit.db)
       /\ SQL' = ensureInit.SQL
       /\ db' = ensureInit.db
       /\ initialized' = TRUE
       /\ last' = Call("getAllLogs", NoArg, TRUE, "none", RowCount(ensureInit.db))
       /\ UNCHANGED stored
    \/ /\ ~Usable(ensureInit.db)
       /\ Rejects("getAllLogs", NoArg)

\* export async function addLog(row)
dbAddLog(row) ==
    LET d == ensureInit.db IN
    \/ InitSqlJsRejects("addLog", row)
    \/ /\ Usable(d)
       /\ ConstraintsHold(d, row)
       /\ Len(d.logs) < MaxRows
       /\ SQL' = ensureInit.SQL
       /\ initialized' = TRUE
       /\ \E w \in Writes :
           /\ db' = InsertRow(d, row)
           /\ stored' = persist(InsertRow(d, row), w)
           /\ last' = Call("addLog", row, TRUE, w, RowCount(d))
    \/ \* db.prepare or stmt.run throws, persist() is not reached
       /\ ~(Usable(d) /\ ConstraintsHold(d, row))
       /\ Rejects("addLog", row)

\* export async function updateLog(row)
dbUpdateLog(row) ==
    LET d == ensureInit.db IN
    \/ InitSqlJsRejects("updateLog", row)
    \/ /\ Usable(d)
       /\ SQL' = ensureInit.SQL
       /\ initialized' = TRUE
       /\ \E w \in Writes :
           /\ db' = UpdateRows(d, row)
           /\ stored' = persist(UpdateRows(d, row), w)
           /\ last' = Call("updateLog", row, TRUE, w, RowCount(d))
    \/ /\ ~Usable(d)
       /\ Rejects("updateLog", row)

\* export async function deleteLog(id)
dbDeleteLog(id) ==
    LET d == ensureInit.db IN
    \/ InitSqlJsRejects("deleteLog", [id |-> id])
    \/ /\ Usable(d)
       /\ SQL' = ensureInit.SQL
       /\ initialized' = TRUE
       /\ \E w \in Writes :
           /\ db' = DeleteRows(d, id)
           /\ stored' = persist(DeleteRows(d, id), w)
           /\ last' = Call("deleteLog", [id |-> id], TRUE, w, RowCount(d))
    \/ /\ ~Usable(d)
       /\ Rejects("deleteLog", [id |-> id])

\* export async function clearAll()
dbClearAll ==
    LET d == ensureInit.db IN
    \/ InitSqlJsRejects("clearAll", NoArg)
    \/ /\ Usable(d)
       /\ SQL' = ensureInit.SQL
       /\ initialized' = TRUE
       /\ \E w \in Writes :
           /\ db' = DeleteAllRows(d)
           /\ stored' = persist(DeleteAllRows(d), w)
           /\ last' = Call("clearAll", NoArg, TRUE, w, RowCount(d))
    \/ /\ ~Usable(d)
       /\ Rejects("clearAll", NoArg)

\* export async function exportRaw(): resolves to db.export()
exportRaw ==
    \/ InitSqlJsRejects("exportRaw", NoArg)
    \/ /\ SQL' = ensureInit.SQL
       /\ db' = ensureInit.db
       /\ initialized' = TRUE
       /\ last' = Call("exportRaw", NoArg, TRUE, "none", RowCount(ensureInit.db))
       /\ UNCHANGED stored

\* where the sql.js build notices that the bytes are no SQLite file: in
\* new SQL.Database(arr), or (SQLite reads the file header on first use) in
\* the db.run that follows it
ThrowsIn == {"new SQL.Database", "db.run"}

\* export async function importRaw(buffer): no ensureInit; with SQL still
\* null, new SQL.Database throws a TypeError before db is assigned
dbImportRaw(buffer) ==
    \/ /\ SQL = Null
       /\ last' = Call("importRaw", buffer, FALSE, "none", RowCount(db))
       /\ UNCHANGED <<SQL, db, initialized, stored>>
    \/ /\ SQL # Null
       /\ Usable(OpenDatabase(buffer))
       /\ \E w \in Writes :
           /\ db' = CreateTableIfNotExists(OpenDatabase(buffer))
           /\ stored' = persist(CreateTableIfNotExists(OpenDatabase(buffer)), w)
           /\ last' = Call("importRaw", buffer, TRUE, w, RowCount(db))
       /\ UNCHANGED <<SQL, initialized>>
    \/ /\ SQL # Null
       /\ ~Usable(OpenDatabase(buffer))
       /\ \E at \in ThrowsIn :
           db' = IF at = "db.run" THEN OpenDatabase(buffer) ELSE db
       /\ last' = Call("importRaw", buffer, FALSE, "none", RowCount(db))
       /\ UNCHANGED <<SQL, initialized, stored>>

\* ----------------------------------------------- the store, call by call
DbInit ==
    /\ dbInit
    /\ UNCHANGED <<download, app>>

GetAllLogs ==
    /\ dbGetAll
    /\ UNCHANGED <<download, app>>

AddLog(row) ==
    /\ dbAddLog(row)
    /\ UNCHANGED <<download, app>>

UpdateLog(row) ==
    /\ dbUpdateLog(row)
    /\ UNCHANGED <<download, app>>

DeleteLog(id) ==
    /\ dbDeleteLog(id)
    /\ UNCHANGED <<download, app>>

ClearAll ==
    /\ dbClearAll
    /\ UNCHANGED <<download, app>>

\* exportRaw() called and its result dropped
ExportRaw ==
    /\ exportRaw
    /\ UNCHANGED <<download, app>>

ImportRaw(buffer) ==
    /\ dbImportRaw(buffer)
    /\ UNCHANGED <<download, app>>

\* the page is loaded again: the module state starts over, localforage stays
Reload ==
    /\ SQL' = Null
    /\ db' = NoDb
    /\ initialized' = FALSE
    /\ last' = Call("reload", NoArg, TRUE, "none", 0)
    /\ UNCHANGED stored
    /\ UNCHANGED <<download, app>>

\* "Export Data" click: exportRaw(), and the bytes are saved as
\* subtrack.sqlite (listing: what getAllLogs() returns at that moment)
ExportData ==
    /\ exportRaw
    /\ download' = IF last'.ok
                   THEN [kind |-> "file", file |-> dbExport(ensureInit.db),
                         listing |-> SelectAll(ensureInit.db)]
                   ELSE download
    /\ UNCHANGED app

\* the exported file is taken to another browser: nothing is stored there
NewDevice ==
    /\ download # NoDownload
    /\ SQL' = Null
    /\ db' = NoDb
    /\ initialized' = FALSE
    /\ stored' = NoBlob
    /\ last' = Call("load", NoArg, TRUE, "none", 0)
    /\ UNCHANGED <<download, app>>

\* the import input's onChange, given the exported file
ImportDownload ==
    /\ download # NoDownload
    /\ ImportRaw(download.file)

\* ------------------------------------------------------------------ inputs
DistinctIds(rows) ==
    \A j, k \in 1..Len(rows) : rows[j].id = rows[k].id => j = k

\* The files a user imports: SQLite files written by an export of this app
\* (here or in another browser) that hold no, one or two rows of the first
\* two ids in any rowid order, an SQLite file with no logs table, and a
\* file of another kind picked by mistake.
FileRows == {r \in Rows : r.id <= 2}

\* a file that is not an SQLite database (a photo, a text file)
NotADatabase == [kind |-> "bytes", hasLogs |-> FALSE, logs |-> <<>>]

ImportFiles ==
    { [kind |-> "sqlite", hasLogs |-> TRUE, logs |-> q] :
        q \in {<<>>} \cup {<<r>> : r \in FileRows}
              \cup {q \in {<<r1, r2>> : r1 \in FileRows, r2 \in FileRows} : DistinctIds(q)} }
    \cup { [kind |-> "sqlite", hasLogs |-> FALSE, logs |-> <<>>] }
    \cup { NotADatabase }

\* ---------------------------------------------------------------- the view
\* export const SUBSTANCE_OPTIONS
SUBSTANCE_OPTIONS == <<"Marijuana", "Alcohol", "Nicotine">>

\* the substance pills the user clicks here
Pills == {SUBSTANCE_OPTIONS[2]}

\* LogEntry.feelings: undefined, or an array of feelings
NoFeelings == [kind |-> "undefined"]
FeelingsOf(items) == [kind |-> "array", items |-> items]

\* JSON.stringify(feelings) for the arrays that occur here
JsonStringify(f) ==
    CASE f.items = <<>> -> "[]"
      [] f.items = <<"happy">> -> "[\"happy\"]"
      [] f.items = <<"happy", "tired">> -> "[\"happy\",\"tired\"]"

\* JSON.parse(r.feelings)
JsonParse(text) ==
    CHOOSE f \in {FeelingsOf(<<>>), FeelingsOf(<<"happy">>), FeelingsOf(<<"happy", "tired">>)} :
        JsonStringify(f) = text

\* String.prototype.trim(): texts of white space only become the empty
\* text; no other text here starts or ends with white space
WhiteSpace == {"", " ", "  "}
trim(s) == IF s \in WhiteSpace THEN "" ELSE s

\* IsBlank that lets every text through
IsBlankNever(s) == FALSE

\* !substance.trim()
IsBlank(s) == trim(s) = ""

\* the object the view passes to dbAddLog / dbUpdateLog:
\* notes || null, feelings ? JSON.stringify(feelings) : null, dosage ?? null
ToRow(l) ==
    [id |-> l.id, substance |-> l.substance,
     notes |-> IF l.notes \in {"", Undefined} THEN Null ELSE l.notes,
     feelings |-> IF l.feelings = NoFeelings THEN Null ELSE JsonStringify(l.feelings),
     dosage |-> OrNull(l.dosage),
     timestamp |-> l.timestamp]

\* rows.map((r) => ({...})): notes || '', feelings ? JSON.parse(feelings)
\* : undefined, dosage || undefined
ParseRow(r) ==
    [id |-> r.id, substance |-> r.substance,
     notes |-> IF r.notes \in {Null, ""} THEN "" ELSE r.notes,
     feelings |-> IF r.feelings \in {Null, ""} THEN NoFeelings ELSE JsonParse(r.feelings),
     dosage |-> IF r.dosage \in {Null, ""} THEN Undefined ELSE r.dosage,
     timestamp |-> r.timestamp]

Parsed(rows) == [k \in 1..Len(rows) |-> ParseRow(rows[k])]

\* const rows = await dbGetAll(): the rows of d, none when there is no
\* database to read
RowsOf(d) == IF Usable(d) THEN SelectAll(d) ELSE <<>>

\* AfterAwait that sets the list whether or not the call resolved
AfterAwaitAnyway(ok, next, prev) == next

\* try { await dbCall(...); setLogs(next) } catch { console.warn }: the list
\* after the handler
AfterAwait(ok, next, prev) == IF ok THEN next ELSE prev

\* crypto.randomUUID(): an id that no entry has (the first such one)
FreeIds ==
    Ids \ ({ensureInit.db.logs[k].id : k \in 1..Len(ensureInit.db.logs)}
           \cup {logs[k].id : k \in 1..Len(logs)})

FreshId == CHOOSE i \in FreeIds : \A j \in FreeIds : i <= j

\* useEffect(..., []): dbInit(), dbGetAll(), setLogs(parsed), run once
\* after the page has loaded
Mount ==
    /\ last.op \in {"load", "reload"}
    /\ dbGetAll
    /\ logs' = AfterAwait(last'.ok, Parsed(RowsOf(db')), logs)
    /\ UNCHANGED <<download, substance, now, panel, others>>

\* a substance pill's onClick: setSubstance(s)
PickSubstance(s) ==
    /\ substance # s
    /\ substance' = s
    /\ UNCHANGED <<SQL, db, initialized, stored, last, download, logs, now, panel, others>>

\* const handleSubmit, with notes, feelings and dosage left empty; the
\* clock has moved on when the handler is through
handleSubmit ==
    IF IsBlank(substance)
    THEN UNCHANGED vars
    ELSE LET newLog == [id |-> FreshId, substance |-> trim(substance),
                        notes |-> trim(""), feelings |-> NoFeelings,
                        dosage |-> Undefined, timestamp |-> IsoTexts[now]]
         IN  /\ now < Len(IsoTexts)
             /\ FreeIds # {}
             /\ dbAddLog(ToRow(newLog))
             /\ logs' = AfterAwait(last'.ok, <<newLog>> \o logs, logs)
             /\ substance' = ""
             /\ now' = now + 1
             /\ currentPage' = 1
             /\ UNCHANGED <<download, trendDays, trendFilterSubstance, others>>

\* const itemsPerPage = 5, const totalPages = Math.ceil(logs.length /
\* itemsPerPage)
itemsPerPage == 5
totalPages == (Len(logs) + itemsPerPage - 1) \div itemsPerPage

\* const paginatedLogs: logs.slice(start, start + itemsPerPage)
paginatedLogs ==
    LET start == (currentPage - 1) * itemsPerPage
        end == IF start + itemsPerPage < Len(logs) THEN start + itemsPerPage ELSE Len(logs)
    IN  SubSeq(logs, start + 1, end)

\* "Previous": drawn when totalPages > 1, disabled on page 1;
\* setCurrentPage((p) => Math.max(1, p - 1))
PreviousPage ==
    /\ totalPages > 1
    /\ currentPage # 1
    /\ currentPage' = IF currentPage - 1 < 1 THEN 1 ELSE currentPage - 1
    /\ UNCHANGED <<SQL, db, initialized, stored, last, download, logs, substance, now,
                   trendDays, trendFilterSubstance, others>>

\* "Next": drawn when totalPages > 1, disabled on the last page;
\* setCurrentPage((p) => Math.min(totalPages, p + 1))
NextPage ==
    /\ totalPages > 1
    /\ currentPage # totalPages
    /\ currentPage' = IF totalPages < currentPage + 1 THEN totalPages ELSE currentPage + 1
    /\ UNCHANGED <<SQL, db, initialized, stored, last, download, logs, substance, now,
                   trendDays, trendFilterSubstance, others>>

\* what the user changes in a LogItem before Save: the time
\* (handleTimeChange), here to the latest instant, or the substance
\* (handleSubstanceChange: the dosage is reset)
Edited(l) ==
    {[l EXCEPT !.timestamp = IsoTexts[Len(IsoTexts)]]}
    \cup {[l EXCEPT !.substance = s, !.dosage = Undefined] : s \in Pills}

\* const handleUpdateLog, called by LogItem's handleSave
handleUpdateLog(updatedLog) ==
    /\ dbUpdateLog(ToRow(updatedLog))
    /\ logs' = AfterAwait(last'.ok,
                          [k \in 1..Len(logs) |->
                              IF logs[k].id = updatedLog.id THEN updatedLog ELSE logs[k]],
                          logs)
    /\ UNCHANGED <<download, substance, now, panel, others>>

\* a LogItem of the page shown: Edit, one change, Save
HandleSave ==
    \E k \in 1..Len(paginatedLogs) : \E updatedLog \in Edited(paginatedLogs[k]) :
        handleUpdateLog(updatedLog)

\* const handleDeleteLog, the confirm() accepted
handleDeleteLog(id) ==
    /\ dbDeleteLog(id)
    /\ logs' = AfterAwait(last'.ok, SelectSeq(logs, LAMBDA l : l.id # id), logs)
    /\ UNCHANGED <<download, substance, now, panel, others>>

\* a LogItem of the page shown: Delete
HandleDelete ==
    \E k \in 1..Len(paginatedLogs) : handleDeleteLog(paginatedLogs[k].id)

\* const clearAll of App, the confirm() accepted
clearAll ==
    /\ dbClearAll
    /\ logs' = AfterAwait(last'.ok, <<>>, logs)
    /\ UNCHANGED <<download, substance, now, panel, others>>

\* the files picked in the view: an export with one row, logged before the
\* page was opened, and a file that is no database
PickedFiles ==
    { [kind |-> "sqlite", hasLogs |-> TRUE,
       logs |-> <<[id |-> 1, substance |-> "Nicotine", notes |-> "n",
                   feelings |-> "[\"happy\"]", dosage |-> "5mg",
                   timestamp |-> IsoTexts[1]]>>],
      NotADatabase }

\* the import input's onChange: dbImportRaw(buffer), dbGetAll(),
\* setLogs(parsed)
ImportChange(buffer) ==
    /\ dbImportRaw(buffer)
    /\ logs' = AfterAwait(last'.ok, Parsed(RowsOf(db')), logs)
    /\ currentPage' = AfterAwait(last'.ok, 1, currentPage)
    /\ UNCHANGED <<download, substance, now, trendDays, trendFilterSubstance, others>>

\* number | null: trendDays, cutoff
NullNumber == [kind |-> "null"]
Num(n) == [kind |-> "number", n |-> n]

\* trendDays: null for "All", or a number of days
AllTime == NullNumber
Days(n) == Num(n)

\* the page is loaded again: module state and component state start over
ReloadPage ==
    /\ SQL' = Null
    /\ db' = NoDb
    /\ initialized' = FALSE
    /\ last' = Call("reload", NoArg, TRUE, "none", 0)
    /\ logs' = <<>>
    /\ substance' = ""
    /\ trendDays' = Days(7)
    /\ trendFilterSubstance' = "All"
    /\ currentPage' = 1
    /\ UNCHANGED <<stored, download, now, others>>

\* --------------------------------------------------------------- the trends
\* A Date is its time value, here in hours since the first hour (UTC) of
\* EpochYear; an ISO text is read through the table IsoFields.
EpochYear == 2023

\* the local time zone is ahead of UTC by this many hours (no daylight
\* saving change in the months covered)
TimezoneOffset == 2

\* 24 * 60 * 60 * 1000 ms, in hours
DayLength == 24

IsLeap(y) == (y % 4 = 0 /\ y % 100 # 0) \/ y % 400 = 0
YearDays(y) == IF IsLeap(y) THEN 366 ELSE 365
DaysInMonth(y, m) ==
    CASE m = 2 -> IF IsLeap(y) THEN 29 ELSE 28
      [] m \in {4, 6, 9, 11} -> 30
      [] OTHER -> 31

RECURSIVE DaysBeforeYear(_)
DaysBeforeYear(y) ==
    IF y <= EpochYear THEN 0 ELSE DaysBeforeYear(y - 1) + YearDays(y - 1)

RECURSIVE DaysBeforeMonth(_, _)
DaysBeforeMonth(y, m) ==
    IF m <= 1 THEN 0 ELSE DaysBeforeMonth(y, m - 1) + DaysInMonth(y, m - 1)

\* ECMAScript MakeDay: the day number of day d of month m, where d may lie
\* outside the month (setDate(0) is the last day of the month before)
MakeDay(y, m, d) == DaysBeforeYear(y) + DaysBeforeMonth(y, m) + d - 1

RECURSIVE YearFromDay(_, _)
YearFromDay(n, y) ==
    IF n < YearDays(y) THEN [y |-> y, n |-> n] ELSE YearFromDay(n - YearDays(y), y + 1)

RECURSIVE MonthFromDay(_, _, _)
MonthFromDay(n, y, m) ==
    IF n < DaysInMonth(y, m) THEN [m |-> m, d |-> n + 1]
    ELSE MonthFromDay(n - DaysInMonth(y, m), y, m + 1)

\* year, month, day of the month and hour of a time value, in UTC
FieldsOf(t) ==
    LET yr == YearFromDay(t \div DayLength, EpochYear)
        mo == MonthFromDay(yr.n, yr.y, 1)
    IN  [y |-> yr.y, m |-> mo.m, d |-> mo.d, h |-> t % DayLength]

\* the time value of year, month, day, hour in UTC
TimeOf(f) == MakeDay(f.y, f.m, f.d) * DayLength + f.h

\* getFullYear(), getMonth() + 1, getDate(), getHours(): the local fields
LocalFields(t) == FieldsOf(t + TimezoneOffset)

\* the ISO texts that are read here, with the fields they spell out
IsoFields(text) ==
    CASE text = "2023-12-23T08:00:00.000Z" -> [y |-> 2023, m |-> 12, d |-> 23, h |-> 8]
      [] text = "2023-12-26T07:00:00.000Z" -> [y |-> 2023, m |-> 12, d |-> 26, h |-> 7]
      [] text = "2023-12-26T08:00:00.000Z" -> [y |-> 2023, m |-> 12, d |-> 26, h |-> 8]
      [] text = "2024-01-01T08:00:00.000Z" -> [y |-> 2024, m |-> 1, d |-> 1, h |-> 8]
      [] text = "2024-01-01T23:00:00.000Z" -> [y |-> 2024, m |-> 1, d |-> 1, h |-> 23]
      [] text = "2024-01-02T08:00:00.000Z" -> [y |-> 2024, m |-> 1, d |-> 2, h |-> 8]
      [] text = "2024-01-03T08:00:00.000Z" -> [y |-> 2024, m |-> 1, d |-> 3, h |-> 8]
      [] text = "2024-01-04T08:00:00.000Z" -> [y |-> 2024, m |-> 1, d |-> 4, h |-> 8]

\* new Date(iso).getTime()
DateParse(text) == TimeOf(IsoFields(text))

\* new Date() / Date.now()
DateNow == DateParse(IsoTexts[now])

\* the "Range" buttons: [7, 14, 30, 90]
RangeOptions == {7, 14, 30, 90}

\* days ? ... : ...
Truthy(days) == days # AllTime /\ days.n # 0

\* const getDateKey, applied to a time value: `${y}-${m}-${day}` of the
\* local fields, kept as the triple the text spells out
getDateKey(t) == LET f == LocalFields(t) IN <<f.y, f.m, f.d>>

\* d.setDate(k): the local day of the month is replaced, the local time of
\* day is kept
SetDate(t, k) ==
    LET f == LocalFields(t)
    IN  MakeDay(f.y, f.m, k) * DayLength + f.h - TimezoneOffset

\* d.toISOString(), read again by new Date(iso): the UTC fields and back
ThroughIso(t) == TimeOf(FieldsOf(t))

\* the for loop of buildDateRange from i down to 0, with now = t: what it
\* pushes
RECURSIVE DateRangePasses(_, _, _, _)
DateRangePasses(t, date, from, to) ==
    IF from < to THEN <<>>
    ELSE IF from = to THEN <<getDateKey(ThroughIso(SetDate(t, date - from)))>>
    ELSE LET half == (from + to + 1) \div 2
         IN  DateRangePasses(t, date, from, half) \o DateRangePasses(t, date, half - 1, to)

DateRangeLoop(t, date, i) == DateRangePasses(t, date, i, 0)

\* buildDateRange whose loop starts at i = days
buildDateRangeOffByOne(days) ==
    IF days = AllTime THEN <<>>
    ELSE LET t == DateNow
             date == LocalFields(t).d
         IN  DateRangeLoop(t, date, days.n)

\* function buildDateRange(days)
buildDateRange(days) ==
    IF days = AllTime THEN <<>>
    ELSE LET t == DateNow              \* const now = new Date()
             date == LocalFields(t).d  \* now.getDate()
         IN  DateRangeLoop(t, date, days.n - 1)

\* labels.indexOf(key), counted from 1; 0 when the key is not in labels
IndexOf(labels, key) ==
    LET at == {j \in 1..Len(labels) : labels[j] = key}
    IN  IF at = {} THEN 0 ELSE CHOOSE j \in at : \A k \in at : j <= k

\* Magnitudes are counted in tenths: One is the number 1.
One == 10

\* export const DOSAGE_WEIGHTS (in tenths)
DOSAGE_WEIGHTS ==
    ("1mg" :> 10) @@ ("2.5mg" :> 25) @@ ("5mg" :> 50) @@ ("7.5mg" :> 75)
    @@ ("10mg" :> 100) @@ ("20mg" :> 200) @@ ("1 hit" :> 80) @@ ("2 hits" :> 160)
    @@ ("3 hits" :> 240) @@ ("1 drink" :> 10) @@ ("2 drinks" :> 20)
    @@ ("3 drinks" :> 30) @@ ("4 drinks" :> 40) @@ ("3mg" :> 30) @@ ("6mg" :> 60)
    @@ ("1 cigarette" :> 20)

\* parseFloat(text), in tenths, for the dosage texts typed here; NaN for a
\* text that does not start with a number
NaN == [nan |-> TRUE]
Number(v) == [nan |-> FALSE, value |-> v]
parseFloat(text) ==
    CASE text = "15 mg" -> Number(150)
      [] text = "0mg" -> Number(0)
      [] text = "-5mg" -> Number(0 - 50)
      [] OTHER -> NaN

\* the magnitude of one counted entry (aggregateUsageOverTime, the body of
\* if (idx >= 0) up to the +=)
Magnitude(l) ==
    LET parsed == parseFloat(l.dosage)
        magnitude ==
            IF l.dosage \in {Undefined, Null, ""} THEN 0
            ELSE IF l.dosage \in DOMAIN DOSAGE_WEIGHTS THEN DOSAGE_WEIGHTS[l.dosage]
            ELSE IF parsed # NaN THEN parsed.value
            ELSE 0
    IN  IF magnitude = 0 THEN One ELSE magnitude

\* one pass of the for loop of aggregateUsageOverTime
UsageStep(series, labels, subs, l) ==
    LET idx == IndexOf(labels, getDateKey(DateParse(l.timestamp)))
    IN  IF l.substance = "" \/ l.substance \notin subs \/ l.timestamp = ""
        THEN series
        ELSE IF idx >= 1
             THEN [series EXCEPT ![l.substance][idx] = @ + Magnitude(l)]
             ELSE series

RECURSIVE UsageLoop(_, _, _, _)
UsageLoop(series, labels, subs, rest) ==
    IF rest = <<>> THEN series
    ELSE UsageLoop(UsageStep(series, labels, subs, Head(rest)), labels, subs, Tail(rest))

\* function aggregateUsageOverTime(logs, days, substances)
aggregateUsageOverTime(ls, days, substances) ==
    LET labels == IF Truthy(days) THEN buildDateRange(days) ELSE <<>>
        subs == {substances[j] : j \in 1..Len(substances)}
        zero == [s \in subs |-> [j \in 1..Len(labels) |-> 0]]
    IN  [labels |-> labels, series |-> UsageLoop(zero, labels, subs, ls)]

\* one pass of the for loop of aggregateFrequencies without its cutoff line
FrequencyStepNoCutoff(counts, cutoff, l) ==
    IF l.substance = "" THEN counts
    ELSE IF l.substance \in DOMAIN counts
         THEN [counts EXCEPT ![l.substance] = @ + 1]
         ELSE counts @@ (l.substance :> 1)

\* one pass of the for loop of aggregateFrequencies
FrequencyStep(counts, cutoff, l) ==
    IF l.substance = "" THEN counts
    ELSE IF cutoff # NullNumber /\ cutoff.n # 0 /\ DateParse(l.timestamp) < cutoff.n
         THEN counts
         ELSE IF l.substance \in DOMAIN counts
              THEN [counts EXCEPT ![l.substance] = @ + 1]
              ELSE counts @@ (l.substance :> 1)

RECURSIVE FrequencyLoop(_, _, _)
FrequencyLoop(counts, cutoff, rest) ==
    IF rest = <<>> THEN counts
    ELSE FrequencyLoop(FrequencyStep(counts, cutoff, Head(rest)), cutoff, Tail(rest))

\* function aggregateFrequencies(logs, days)
aggregateFrequencies(ls, days) ==
    LET cutoff == IF Truthy(days) THEN Num(DateNow - days.n * DayLength) ELSE NullNumber
    IN  FrequencyLoop(<<>>, cutoff, ls)

\* for (const f of l.feelings) counts[f] = (counts[f] || 0) + 1
RECURSIVE CountTags(_, _)
CountTags(counts, items) ==
    IF items = <<>> THEN counts
    ELSE LET f == Head(items)
             next == IF f \in DOMAIN counts
                     THEN [counts EXCEPT ![f] = @ + 1]
                     ELSE counts @@ (f :> 1)
         IN  CountTags(next, Tail(items))

\* one pass of the for loop of aggregateFeelings without its filter line
FeelingsStepAnySubstance(counts, cutoff, filterSubstance, l) ==
    IF cutoff # NullNumber /\ cutoff.n # 0 /\ DateParse(l.timestamp) < cutoff.n
    THEN counts
    ELSE IF l.feelings.kind # "array" THEN counts
         ELSE CountTags(counts, l.feelings.items)

\* one pass of the for loop of aggregateFeelings
FeelingsStep(counts, cutoff, filterSubstance, l) ==
    IF cutoff # NullNumber /\ cutoff.n # 0 /\ DateParse(l.timestamp) < cutoff.n
    THEN counts
    ELSE IF filterSubstance # "All" /\ l.substance # filterSubstance THEN counts
    ELSE IF l.feelings.kind # "array" THEN counts
    ELSE CountTags(counts, l.feelings.items)

RECURSIVE FeelingsLoop(_, _, _, _)
FeelingsLoop(counts, cutoff, filterSubstance, rest) ==
    IF rest = <<>> THEN counts
    ELSE FeelingsLoop(FeelingsStep(counts, cutoff, filterSubstance, Head(rest)),
                      cutoff, filterSubstance, Tail(rest))

\* function aggregateFeelings(logs, days, filterSubstance)
aggregateFeelings(ls, days, filterSubstance) ==
    LET cutoff == IF Truthy(days) THEN Num(DateNow - days.n * DayLength) ELSE NullNumber
    IN  FeelingsLoop(<<>>, cutoff, filterSubstance, ls)

\* const usageOverTime = useMemo(...), const frequencyCounts = useMemo(...),
\* const feelingsCounts = useMemo(...)
usageOverTime == aggregateUsageOverTime(logs, trendDays, SUBSTANCE_OPTIONS)
frequencyCounts == aggregateFrequencies(logs, trendDays)
feelingsCounts == aggregateFeelings(logs, trendDays, trendFilterSubstance)

\* Math.max(...values) over a non-empty collection, Math.max(1, n)
MathMax(values) == CHOOSE m \in values : \A v \in values : v <= m
AtLeastOne(n) == IF n < 1 THEN 1 ELSE n

\* function MultiLineChart: the divisors of its coordinates.  x is
\* i / Math.max(1, labels.length - 1), y is v / max, where max is the
\* largest value of all series, or 1 (here One: the values are in tenths)
\* when there is no value at all
MultiLineChart(labels, series) ==
    LET allValues == UNION {{series[s][i] : i \in 1..Len(series[s])} : s \in DOMAIN series}
        max == IF allValues # {} THEN MathMax(allValues) ELSE One
    IN  [xDivisor |-> AtLeastOne(Len(labels) - 1), yDivisor |-> max]

\* Object.entries(counts).map(([k, v]) => ({ label: k, value: v }))
Items(counts) == {[label |-> k, value |-> counts[k]] : k \in DOMAIN counts}

\* function VerticalBarChart: bw is (width - pad * 2) / Math.max(1,
\* items.length), h is it.value / Math.max(1, max)
VerticalBarChart(items) ==
    LET max == IF items # {} THEN MathMax({it.value : it \in items}) ELSE 1
    IN  [bwDivisor |-> AtLeastOne(Cardinality(items)), hDivisor |-> AtLeastOne(max)]

\* function HorizontalBarChart: w is (...) * it.value / Math.max(1, max)
HorizontalBarChart(items) ==
    LET max == IF items # {} THEN MathMax({it.value : it \in items}) ELSE 1
    IN  [wDivisor |-> AtLeastOne(max)]

\* the options of the "Filter substance" select
FilterOptions == {"All"} \cup {SUBSTANCE_OPTIONS[k] : k \in 1..Len(SUBSTANCE_OPTIONS)}

\* the select's onChange: setTrendFilterSubstance(e.target.value)
SetTrendFilterSubstance(s) ==
    /\ trendFilterSubstance # s
    /\ trendFilterSubstance' = s
    /\ UNCHANGED <<SQL, db, initialized, stored, last, download, logs, substance, now,
                   trendDays, currentPage, others>>

\* a "Range" button's onClick
SetTrendDays(days) ==
    /\ trendDays # days
    /\ trendDays' = days
    /\ UNCHANGED <<SQL, db, initialized, stored, last, download, logs, substance, now,
                   trendFilterSubstance, currentPage, others>>

\* a day goes by with the page open
DayPasses ==
    /\ now < Len(IsoTexts)
    /\ now' = now + 1
    /\ UNCHANGED <<SQL, db, initialized, stored, last, download, logs, substance, panel, others>>


\* the entries the trends are computed over: dosages with a weight, typed
\* dosages with and without a number, no dosage; times ten days, seven
\* days and one day before the first instant of the clock, and on its day
TrendEntry(s, dosage, t) ==
    [id |-> 0, substance |-> s, notes |-> "", feelings |-> NoFeelings,
     dosage |-> dosage, timestamp |-> t]

TrendEntries ==
    << TrendEntry("Marijuana", "5mg", "2024-01-02T08:00:00.000Z"),
       TrendEntry("Marijuana", "bogus", "2024-01-02T08:00:00.000Z"),
       TrendEntry("Marijuana", "0mg", "2024-01-02T08:00:00.000Z"),
       TrendEntry("Alcohol", Undefined, "2024-01-01T08:00:00.000Z"),
       TrendEntry("Alcohol", "15 mg", "2023-12-23T08:00:00.000Z"),
       TrendEntry("Alcohol", "2.5mg", "2023-12-26T08:00:00.000Z"),
       TrendEntry("Nicotine", "1 cigarette", "2023-12-26T07:00:00.000Z"),
       TrendEntry("Kratom", "5mg", "2024-01-02T08:00:00.000Z"),
       TrendEntry("Marijuana", "-5mg", "2024-01-01T23:00:00.000Z") >>

\* the entries the feelings are counted over: one tag, two tags, an empty
\* array and no feelings, of substances the select offers and one it does
\* not, inside and outside the 7-day window
FeelingEntry(s, feelings, t) ==
    [id |-> 0, substance |-> s, notes |-> "", feelings |-> feelings,
     dosage |-> Undefined, timestamp |-> t]

FeelingEntries ==
    << FeelingEntry("Marijuana", FeelingsOf(<<"happy">>), "2024-01-02T08:00:00.000Z"),
       FeelingEntry("Alcohol", FeelingsOf(<<"happy", "tired">>), "2024-01-01T08:00:00.000Z"),
       FeelingEntry("Alcohol", FeelingsOf(<<"happy">>), "2023-12-23T08:00:00.000Z"),
       FeelingEntry("Nicotine", NoFeelings, "2024-01-02T08:00:00.000Z"),
       FeelingEntry("Marijuana", FeelingsOf(<<>>), "2024-01-02T08:00:00.000Z"),
       FeelingEntry("Kratom", FeelingsOf(<<"happy", "tired">>), "2024-01-02T08:00:00.000Z") >>

FeelingLogs ==
    { [j \in 1..Len(q) |-> [FeelingEntries[q[j]] EXCEPT !.id = j]] :
        q \in UNION {[1..n -> 1..Len(FeelingEntries)] : n \in 0..MaxTrendLen} }

\* the lists of at most MaxTrendLen of them, numbered in list order
TrendLogs ==
    { [j \in 1..Len(q) |-> [TrendEntries[q[j]] EXCEPT !.id = j]] :
        q \in UNION {[1..n -> 1..Len(TrendEntries)] : n \in 0..MaxTrendLen} }

\* ------------------------------------------------------ the service worker
\* const CORE_ASSETS
CORE_ASSETS == <<"./", "./index.html", "./manifest.json">>

\* what the page fetches: the document, a script of the build, and the
\* probe of locateWasm
Urls == {"./index.html", "./assets/index.js", "/sql-wasm.wasm"}
Methods == {"GET", "HEAD"}
Requests == [url : Urls, method : Methods]

\* a Response: where it came from, and its status
Response(url, from, status) == [url |-> url, from |-> from, status |-> status]

\* the status of what fetch(event.request) resolves with: found or not
Statuses == {200, 404}

\* the install listener: cache.addAll(CORE_ASSETS); the worker controls no
\* page unless it resolved
InstalledCache ==
    [u \in {CORE_ASSETS[k] : k \in 1..Len(CORE_ASSETS)} |-> Response(u, "install", 200)]

NoEvent == [pc |-> "none"]
NetworkError == [from |-> "none"]
NoMatch == [from |-> "undefined"]

\* caches.match(request): a cached response is matched by URL, and only for
\* a GET request; undefined when there is none
cachesMatch(c, request) ==
    IF request.method = "GET" /\ request.url \in DOMAIN c THEN c[request.url] ELSE NoMatch

\* the catch handler answering with the index document whatever is cached
AnswerFromCacheIndexOnly(c, request) ==
    LET r == cachesMatch(c, [url |-> "./index.html", method |-> "GET"])
    IN  IF r # NoMatch THEN r ELSE NetworkError

\* .catch(() => caches.match(event.request).then((r) => r ||
\* caches.match('./index.html'))); respondWith(undefined) is a network error
AnswerFromCache(c, request) ==
    LET r == cachesMatch(c, request)
        index == cachesMatch(c, [url |-> "./index.html", method |-> "GET"])
    IN  IF r # NoMatch THEN r
        ELSE IF index # NoMatch THEN index ELSE NetworkError

\* a fetch event is dispatched: event.respondWith(fetch(event.request)...)
FetchEvent(request) ==
    /\ event.pc \in {"none", "answered"}
    /\ event' = [pc |-> "fetch", request |-> request]
    /\ UNCHANGED <<page, cache, puts, server, wasmUrl, calls, pending>>

\* fetch resolves: the .then handler starts cache.put(event.request, copy)
\* for a GET request and returns res
FetchResolves(status) ==
    /\ event.pc = "fetch"
    /\ LET res == Response(event.request.url, "network", status)
       IN  /\ event' = [pc |-> "answered", request |-> event.request, network |-> res,
                        reply |-> res]
           /\ puts' = IF event.request.method = "GET"
                      THEN puts \cup {[request |-> event.request, copy |-> res]}
                      ELSE puts
    /\ UNCHANGED <<page, cache, server, wasmUrl, calls, pending>>

\* fetch rejects (no network): the .catch handler answers from the cache
FetchRejects ==
    /\ event.pc = "fetch"
    /\ event' = [pc |-> "answered", request |-> event.request, network |-> NetworkError,
                 reply |-> AnswerFromCache(cache, event.request)]
    /\ UNCHANGED <<page, cache, puts, server, wasmUrl, calls, pending>>

\* caches.open(CACHE_NAME).then((cache) => cache.put(event.request, copy))
\* gets through
CachePut(p) ==
    /\ p \in puts
    /\ cache' = [u \in DOMAIN cache \cup {p.request.url} |->
                    IF u = p.request.url THEN p.copy ELSE cache[u]]
    /\ puts' = puts \ {p}
    /\ UNCHANGED <<page, event, server, wasmUrl, calls, pending>>

\* ----------------------------------------------------------- the wasm probe
\* const localUrl, and the CDN fallback
LocalUrl == "/sql-wasm.wasm"
CdnUrl == "https://sql.js.org/dist/sql-wasm.wasm"

\* what HEAD /sql-wasm.wasm meets: no answer at all (fetch rejects), or a
\* response with its ok flag and headers; wasm tells whether the resource
\* behind it is the wasm file (a static host, an SPA host that answers
\* unknown paths with its index document, the service worker's fallback)
ContentTypes ==
    {Null, "application/wasm", "Application/Wasm", "application/octet-stream",
     "text/html; charset=utf-8"}
ContentLengths == {Null, "", "0", "100", "101", "597", "659731"}

Unreachable == [kind |-> "rejects"]
NoServer == [kind |-> "none"]
NotLocated == [url |-> Null, fetches |-> 0]

Servers ==
    {Unreachable}
    \cup {sv \in [kind : {"response"}, ok : BOOLEAN, contentType : ContentTypes,
                  contentLength : ContentLengths, wasm : BOOLEAN] :
            IF sv.wasm
            THEN /\ sv.ok
                 /\ sv.contentType # "text/html; charset=utf-8"
                 /\ sv.contentLength \in {Null, "659731"}
            ELSE /\ sv.contentType \in {Null, "application/octet-stream",
                                      "text/html; charset=utf-8"}
                 /\ sv.contentLength # "659731"}

\* String.prototype.toLowerCase on the content types that occur
toLowerCase(text) ==
    IF text = "Application/Wasm" THEN "application/wasm" ELSE text

\* ct.includes('application/wasm')
IncludesWasm(ct) == ct = "application/wasm"

\* parseInt(cl, 10)
parseInt(text) ==
    CASE text = "0" -> Number(0)
      [] text = "100" -> Number(100)
      [] text = "101" -> Number(101)
      [] text = "597" -> Number(597)
      [] text = "659731" -> Number(659731)
      [] OTHER -> NaN

\* async function locateWasm(): the URL returned, after its one fetch
locateWasm(sv) ==
    IF sv.kind = "rejects" THEN [url |-> CdnUrl, fetches |-> 1]
    ELSE IF ~sv.ok THEN [url |-> CdnUrl, fetches |-> 1]
    ELSE LET ct == toLowerCase(IF sv.contentType = Null THEN "" ELSE sv.contentType)
             cl == sv.contentLength
         IN  IF IncludesWasm(ct) THEN [url |-> LocalUrl, fetches |-> 1]
             ELSE IF cl \notin {Null, ""} /\ parseInt(cl) # NaN /\ parseInt(cl).value > 100
                  THEN [url |-> LocalUrl, fetches |-> 1]
                  ELSE [url |-> CdnUrl, fetches |-> 1]

\* the site is put on a host, or the network comes and goes
Serve(sv) ==
    /\ server # sv
    /\ server' = sv
    /\ UNCHANGED <<page, cache, event, puts, wasmUrl, calls, pending>>

\* ensureInit: const wasmUrl = await locateWasm()
LocateWasm ==
    /\ server # NoServer
    /\ wasmUrl = NotLocated
    /\ wasmUrl' = locateWasm(server)
    /\ UNCHANGED <<page, cache, event, puts, server, calls, pending>>

\* the page is loaded again
LocateAgain ==
    /\ wasmUrl # NotLocated
    /\ wasmUrl' = NotLocated
    /\ UNCHANGED <<page, cache, event, puts, server, calls, pending>>

\* ------------------------------------------------- the store, calls overlapping
\* An async function runs until its first await that has to wait, and goes
\* on when what it awaits is there; in between, other calls run.  A call is
\* at "initSqlJs" while locateWasm() and initSqlJs() are under way, at
\* "getItem" while localforage reads DB_KEY, at "open" when the value read
\* is there and the rest of ensureInit has not run yet, at "setItem" while
\* persist() awaits its write, and "done" when it has resolved (ok) or
\* rejected.  ready tells whether initialized was true when the call used
\* SQL or db, during which calls were under way when it was started.
NewCall(op, arg) ==
    [op |-> op, arg |-> arg, pc |-> "start", saved |-> NoBlob, ok |-> TRUE,
     write |-> "none", ready |-> FALSE,
     during |-> {k \in 1..Len(calls) : calls[k].pc # "done"}]

\* everything but db.ts's module state, the blob and the calls
beside == <<last, download, logs, substance, now, panel, cache, event, puts, server, wasmUrl>>

\* the rows and the file the overlapping calls are given
ConcRows == {Row(i, e) : i \in Ids, e \in {x \in Entries : x.substance = "Alcohol"}}
ConcFile ==
    [kind |-> "sqlite", hasLogs |-> TRUE,
     logs |-> <<[id |-> 1, substance |-> "Nicotine", notes |-> "n",
                 feelings |-> "[\"happy\"]", dosage |-> "5mg",
                 timestamp |-> IsoTexts[1]]>>]

\* the write that lands next, were the newest to land first
NextWriteNewest(q) == Len(q)

\* the write that lands next: localforage applies the setItem calls in the
\* order they were issued
NextWrite(q) == 1

\* the call's own statements, from the end of its await ensureInit() (for
\* importRaw, from its first line) up to the await in persist(): cs is the
\* list of calls with this one at k, sql and d are SQL and db as the call
\* finds them
Body(k, cs, sql, d) ==
    LET c == [cs[k] EXCEPT !.ready = initialized']
        Done(ok) == [cs EXCEPT ![k] = [c EXCEPT !.pc = "done", !.ok = ok]]
        Writing == [cs EXCEPT ![k] = [c EXCEPT !.pc = "setItem"]]
        Issue(x) == Append(pending, [call |-> k, data |-> dbExport(x)])
    IN  CASE c.op = "init" ->
               /\ db' = d /\ pending' = pending /\ calls' = Done(TRUE)
          [] c.op = "getAllLogs" ->
               /\ db' = d /\ pending' = pending /\ calls' = Done(Usable(d))
          [] c.op = "addLog" ->
               IF Usable(d) /\ ConstraintsHold(d, c.arg)
               THEN /\ db' = InsertRow(d, c.arg)
                    /\ pending' = Issue(InsertRow(d, c.arg))
                    /\ calls' = Writing
               ELSE /\ db' = d /\ pending' = pending /\ calls' = Done(FALSE)
          [] c.op = "importRaw" ->
               IF sql = Null
               THEN /\ db' = d /\ pending' = pending /\ calls' = Done(FALSE)
               ELSE IF Usable(OpenDatabase(c.arg))
               THEN /\ db' = CreateTableIfNotExists(OpenDatabase(c.arg))
                    /\ pending' = Issue(CreateTableIfNotExists(OpenDatabase(c.arg)))
                    /\ calls' = Writing
               ELSE /\ db' = OpenDatabase(c.arg)
                    /\ pending' = pending /\ calls' = Done(FALSE)

\* a call is made: importRaw goes straight to its statements, the others
\* through ensureInit(), which returns at once when initialized is set
StartCall(op, arg) ==
    /\ Len(calls) < MaxCalls
    /\ LET cs == Append(calls, NewCall(op, arg))
           k == Len(cs)
       IN  IF op = "importRaw" \/ initialized
           THEN /\ initialized' = initialized
                /\ Body(k, cs, SQL, db)
                /\ UNCHANGED <<SQL, stored>>
           ELSE /\ calls' = [cs EXCEPT ![k].pc = "initSqlJs"]
                /\ UNCHANGED <<SQL, db, initialized, stored, pending>>
    /\ UNCHANGED beside

\* SQL = await initSqlJs(...) resolves; localforage.getItem(DB_KEY) is called
InitSqlJsResolves(k) ==
    /\ calls[k].pc = "initSqlJs"
    /\ SQL' = "sql.js"
    /\ calls' = [calls EXCEPT ![k].pc = "getItem"]
    /\ UNCHANGED <<db, initialized, stored, pending, beside>>

\* initSqlJs(...) rejects, and the call with it
InitSqlJsFails(k) ==
    /\ calls[k].pc = "initSqlJs"
    /\ calls' = [calls EXCEPT ![k].pc = "done", ![k].ok = FALSE]
    /\ UNCHANGED <<SQL, db, initialized, stored, pending, beside>>

\* localforage reads what DB_KEY holds
GetItemReads(k) ==
    /\ calls[k].pc = "getItem"
    /\ calls' = [calls EXCEPT ![k].pc = "open", ![k].saved = stored]
    /\ UNCHANGED <<SQL, db, initialized, stored, pending, beside>>

\* ensureInit goes on after await getItem: db = new SQL.Database(...),
\* CREATE TABLE IF NOT EXISTS, initialized = true; then the call's own
\* statements
EnsureInitEnds(k) ==
    /\ calls[k].pc = "open"
    /\ initialized' = TRUE
    /\ Body(k, calls, SQL,
            CreateTableIfNotExists(IF calls[k].saved # NoBlob
                                   THEN OpenDatabase(calls[k].saved)
                                   ELSE NewDatabase))
    /\ UNCHANGED <<SQL, stored, beside>>

\* a setItem write lands, or fails, and persist() and its call return
SetItemLands ==
    /\ pending # <<>>
    /\ LET n == NextWrite(pending)
           p == pending[n]
       IN  \E w \in Writes :
            /\ stored' = IF w = "ok" THEN p.data ELSE stored
            /\ calls' = [calls EXCEPT ![p.call].pc = "done", ![p.call].write = w]
            /\ pending' = [j \in 1..(Len(pending) - 1) |->
                              IF j < n THEN pending[j] ELSE pending[j + 1]]
    /\ UNCHANGED <<SQL, db, initialized, beside>>

\* ----------------------------------------------------------- specification
\* the clock when the page is first opened: later than the one instant the
\* picked files hold
FirstNow == 2

\* nothing is being fetched, probed or called
OthersInit ==
    /\ cache = InstalledCache
    /\ event = NoEvent
    /\ puts = {}
    /\ server = NoServer
    /\ wasmUrl = NotLocated
    /\ calls = <<>>
    /\ pending = <<>>

Init ==
    /\ OthersInit
    /\ SQL = Null
    /\ db = NoDb
    /\ initialized = FALSE
    /\ stored = NoBlob
    /\ last = Call("load", NoArg, TRUE, "none", 0)
    /\ download = NoDownload
    /\ logs = <<>>
    /\ substance = ""
    /\ now = FirstNow
    /\ trendDays = Days(7)
    /\ trendFilterSubstance = "All"
    /\ currentPage = 1

\* the store, one call after the other, over page reloads
Next ==
    \/ DbInit
    \/ GetAllLogs
    \/ \E row \in Rows : AddLog(row)
    \/ \E row \in Rows : UpdateLog(row)
    \/ \E id \in Ids : DeleteLog(id)
    \/ ClearAll
    \/ ExportRaw
    \/ \E buffer \in ImportFiles : ImportRaw(buffer)
    \/ Reload

Spec == Init /\ [][Next]_vars

\* moving the data to another browser: log, export, open the app in the
\* other browser, import the file
TransferNext ==
    \/ DbInit
    \/ \E row \in Rows : AddLog(row)
    \/ ExportData
    \/ NewDevice
    \/ ImportDownload

TransferSpec == Init /\ [][TransferNext]_vars

\* the page: the view's handlers, one after the other, over page reloads
ViewNext ==
    \/ Mount
    \/ \E s \in Pills : PickSubstance(s)
    \/ handleSubmit
    \/ HandleSave
    \/ HandleDelete
    \/ clearAll
    \/ \E buffer \in PickedFiles : ImportChange(buffer)
    \/ ReloadPage

ViewSpec == Init /\ [][ViewNext]_vars

\* the service worker answering the page's requests
SwNext ==
    \/ \E request \in Requests : FetchEvent(request)
    \/ \E status \in Statuses : FetchResolves(status)
    \/ FetchRejects
    \/ \E p \in puts : CachePut(p)

SwSpec == Init /\ [][SwNext]_vars

\* the probe for the wasm file, over hosts and page loads
LocateNext ==
    \/ \E sv \in Servers : Serve(sv)
    \/ LocateWasm
    \/ LocateAgain

LocateSpec == Init /\ [][LocateNext]_vars

\* the calls of the store overlapping, from the page's load on
ConcNext ==
    \/ StartCall("init", NoArg)
    \/ StartCall("getAllLogs", NoArg)
    \/ \E row \in ConcRows : StartCall("addLog", row)
    \/ StartCall("importRaw", ConcFile)
    \/ \E k \in 1..Len(calls) : InitSqlJsResolves(k)
    \/ \E k \in 1..Len(calls) : InitSqlJsFails(k)
    \/ \E k \in 1..Len(calls) : GetItemReads(k)
    \/ \E k \in 1..Len(calls) : EnsureInitEnds(k)
    \/ SetItemLands

ConcSpec == Init /\ [][ConcNext]_vars

\* the store initialized on an empty table, nothing stored yet
ReadyInit ==
    /\ OthersInit
    /\ SQL = "sql.js"
    /\ db = CreateTableIfNotExists(NewDatabase)
    /\ initialized = TRUE
    /\ stored = NoBlob
    /\ last = Call("init", NoArg, TRUE, "none", 0)
    /\ download = NoDownload
    /\ logs = <<>>
    /\ substance = ""
    /\ now = FirstNow
    /\ trendDays = Days(7)
    /\ trendFilterSubstance = "All"
    /\ currentPage = 1

\* submits in quick succession: addLog calls that overlap
SubmitNext ==
    \/ \E row \in Rows : StartCall("addLog", row)
    \/ SetItemLands

SubmitSpec == ReadyInit /\ [][SubmitNext]_vars

\* the page open with a list loaded from the store
TrendsInit ==
    /\ OthersInit
    /\ logs \in TrendLogs
    /\ SQL = "sql.js"
    /\ db = [kind |-> "db", hasLogs |-> TRUE,
             logs |-> [j \in 1..Len(logs) |-> ToRow(logs[j])]]
    /\ initialized = TRUE
    /\ stored = dbExport(db)
    /\ last = Call("getAllLogs", NoArg, TRUE, "none", Len(logs))
    /\ download = NoDownload
    /\ substance = ""
    /\ now = FirstNow
    /\ trendDays = Days(7)
    /\ trendFilterSubstance = "All"
    /\ currentPage = 1

\* the Trends section: the range buttons, over the days
TrendsNext ==
    \/ \E n \in RangeOptions : SetTrendDays(Days(n))
    \/ SetTrendDays(AllTime)
    \/ DayPasses

TrendsSpec == TrendsInit /\ [][TrendsNext]_vars

\* the page open on a store that holds two entries more than a page shows
PageInit ==
    /\ OthersInit
    /\ SQL = "sql.js"
    /\ db = [kind |-> "db", hasLogs |-> TRUE,
             logs |-> [j \in 1..(itemsPerPage + 2) |->
                        [id |-> j, substance |-> "Alcohol", notes |-> Null,
                         feelings |-> Null, dosage |-> Null, timestamp |-> IsoTexts[1]]]]
    /\ initialized = TRUE
    /\ stored = dbExport(db)
    /\ logs = Parsed(RowsOf(db))
    /\ last = Call("getAllLogs", NoArg, TRUE, "none", Len(logs))
    /\ download = NoDownload
    /\ substance = ""
    /\ now = FirstNow
    /\ trendDays = Days(7)
    /\ trendFilterSubstance = "All"
    /\ currentPage = 1

\* the History section: its pagination and what changes the list
PageNext ==
    \/ PreviousPage
    \/ NextPage
    \/ \E s \in Pills : PickSubstance(s)
    \/ handleSubmit
    \/ HandleDelete
    \/ clearAll
    \/ \E buffer \in PickedFiles : ImportChange(buffer)

PageSpec == PageInit /\ [][PageNext]_vars

\* the page open with a list of entries that carry feelings
FeelingsInit ==
    /\ OthersInit
    /\ logs \in FeelingLogs
    /\ SQL = "sql.js"
    /\ db = [kind |-> "db", hasLogs |-> TRUE,
             logs |-> [j \in 1..Len(logs) |-> ToRow(logs[j])]]
    /\ initialized = TRUE
    /\ stored = dbExport(db)
    /\ last = Call("getAllLogs", NoArg, TRUE, "none", Len(logs))
    /\ download = NoDownload
    /\ substance = ""
    /\ now = FirstNow
    /\ trendDays = Days(7)
    /\ trendFilterSubstance = "All"
    /\ currentPage = 1

\* the Trends section with its substance filter
FeelingsNext ==
    \/ \E n \in RangeOptions : SetTrendDays(Days(n))
    \/ SetTrendDays(AllTime)
    \/ \E s \in FilterOptions : SetTrendFilterSubstance(s)
    \/ DayPasses

FeelingsSpec == FeelingsInit /\ [][FeelingsNext]_vars

\* -------------------------------------------------------------- properties
\* what getAllLogs() returns when called now
ListAll == SelectAll(ensureInit.db)

\* the operations that go through ensureInit() and run no statement that
\* writes
ReadingOps == {"init", "getAllLogs", "exportRaw"}

MutatingOps == {"addLog", "updateLog", "deleteLog", "clearAll", "importRaw"}

\* C1: after addLog(e) resolved, getAllLogs() holds exactly one row with
\* e's id and that row equals e in every column; after deleteLog(id)
\* resolved, getAllLogs() holds no row with that id.
C1_CreateThenDelete ==
    /\ (last.op = "addLog" /\ last.ok) =>
        /\ Cardinality({k \in 1..Len(ListAll) : ListAll[k].id = last.arg.id}) = 1
        /\ Cardinality({k \in 1..Len(ListAll) : ListAll[k] = last.arg}) = 1
    /\ (last.op = "deleteLog" /\ last.ok) =>
        \A k \in 1..Len(ListAll) : ListAll[k].id # last.arg.id

\* a deleteLog that removed a row and left another one
C1_Witness ==
    /\ last.op = "deleteLog" /\ last.ok
    /\ last.before = 2
    /\ RowCount(db) = 1

\* C2: whatever the order of the addLog and updateLog calls and of their
\* timestamps, getAllLogs() is in non-increasing timestamp order.
C2_ListSortedDesc ==
    \A j, k \in 1..Len(ListAll) :
        j < k => TextRank(ListAll[j].timestamp) >= TextRank(ListAll[k].timestamp)

\* an addLog or updateLog left the older row in front of the newer one in
\* the table
C2_Witness ==
    /\ last.op \in {"addLog", "updateLog"} /\ last.ok
    /\ RowCount(db) = 2
    /\ TextRank(db.logs[1].timestamp) < TextRank(db.logs[2].timestamp)

\* C3: after a mutating call resolved, DB_KEY holds the serialisation of
\* the database in memory, and a new session lists the same rows.
C3_BlobIsCurrentDatabase ==
    (last.op \in MutatingOps /\ last.ok) =>
        /\ stored = dbExport(db)
        /\ SelectAll(LoadedDb) = SelectAll(db)

\* C4: importing the file an export wrote into an empty store gives the
\* listing the exporting store had: the same rows in the same order.
C4_ExportImportRoundTrip ==
    ( /\ last.op = "importRaw" /\ last.ok
      /\ download # NoDownload
      /\ last.arg = download.file
      /\ last.before = 0 )
    => SelectAll(db) = download.listing

\* the exported file held two rows, the older one first in the table, and
\* was imported into an empty store
C4_Witness ==
    /\ last.op = "importRaw" /\ last.ok
    /\ download # NoDownload
    /\ last.arg = download.file
    /\ last.before = 0
    /\ Len(download.listing) = 2
    /\ download.file.logs # download.listing

\* C5: after clearAll() resolved, getAllLogs() is empty and a new session
\* opens a database with no rows.
C5_ClearEmptiesStoreAndBlob ==
    (last.op = "clearAll" /\ last.ok) =>
        /\ ListAll = <<>>
        /\ SelectAll(LoadedDb) = <<>>

\* C6: addLog with an id the table holds rejects, makes no write, and
\* leaves the database in memory and the blob under DB_KEY as they were.
C6_DuplicateCreateRejected ==
    [][ (last'.op = "addLog" /\ HasId(ensureInit.db, last'.arg.id)) =>
            /\ ~last'.ok
            /\ last'.write = "none"
            /\ initialized => db' = db
            /\ ensureInit'.db = ensureInit.db
            /\ stored' = stored ]_vars

\* an addLog rejected on a table that holds a row
C6_Witness ==
    /\ last.op = "addLog" /\ ~last.ok
    /\ RowCount(db) >= 1

C8_ImportReplacesStore ==
    (last.op = "importRaw" /\ last.ok) =>
        /\ ListAll = OrderByTimestampDesc(last.arg.logs)
        /\ SelectAll(LoadedDb) = OrderByTimestampDesc(last.arg.logs)

\* C9: updateLog(row) with an id the table holds resolves, sets that row
\* to the given row, and leaves the other rows and the row count alone.
C9_UpdateReplacesOneRow ==
    [][ (last'.op = "updateLog" /\ HasId(ensureInit.db, last'.arg.id)) =>
            LET d == ensureInit.db IN
            /\ initialized => last'.ok
            /\ last'.ok =>
                /\ Len(db'.logs) = Len(d.logs)
                /\ \A k \in 1..Len(d.logs) :
                    db'.logs[k] = IF d.logs[k].id = last'.arg.id
                                  THEN last'.arg ELSE d.logs[k] ]_vars

\* an updateLog that found its row among two
C9_Witness ==
    /\ last.op = "updateLog" /\ last.ok
    /\ RowCount(db) = 2
    /\ HasId(db, last.arg.id)

\* C10: a call whose write to localforage failed rejects.
C10_WriteFailureReported ==
    last.write = "failed" => ~last.ok

\* C11: once the store is initialized, a further init(), and the
\* ensureInit() that getAllLogs() and exportRaw() start with, open no other
\* database and leave the rows in memory and the blob under DB_KEY as they
\* were.
C11_InitIdempotent ==
    [][ (initialized /\ last'.op \in ReadingOps) =>
            /\ initialized'
            /\ SQL' = SQL
            /\ db' = db
            /\ stored' = stored ]_vars

\* init() resolved on a table that holds a row while nothing is stored
\* under DB_KEY: the session was initialized before this call
C11_Witness ==
    /\ last.op = "init" /\ last.ok
    /\ initialized
    /\ RowCount(db) >= 1
    /\ stored = NoBlob

\* C14: a rejected importRaw leaves the database in memory, the blob under
\* DB_KEY and what getAllLogs() returns as they were.
C14_FailedImportKeepsStore ==
    [][ (last'.op = "importRaw" /\ ~last'.ok) =>
            /\ db' = db
            /\ stored' = stored
            /\ ListAll' = ListAll ]_vars

\* C15 as stated: a row that getAllLogs() would return is still returned
\* after init, addLog, updateLog, getAllLogs, exportRaw and importRaw.
C15_OnlyDeleteOrClearRemoves ==
    [][ last'.op \in ReadingOps \cup {"addLog", "updateLog", "importRaw"} =>
            \A i \in Ids : HasId(ensureInit.db, i) => HasId(ensureInit.db, i)' ]_vars

\* C15: a row that getAllLogs() would return is still returned after init,
\* addLog, updateLog, getAllLogs and exportRaw; deleteLog with its id,
\* clearAll and importRaw are the calls that remove rows.
C15_OnlyDeleteClearImportRemoves ==
    [][ last'.op \in ReadingOps \cup {"addLog", "updateLog"} =>
            \A i \in Ids : HasId(ensureInit.db, i) => HasId(ensureInit.db, i)' ]_vars

\* an addLog resolved on a table that already held a row, and both rows
\* are there
C15_Witness ==
    /\ last.op = "addLog" /\ last.ok
    /\ last.before = 1
    /\ RowCount(db) = 2

\* the store calls the view's handlers make to change the store
ViewWrites == {"addLog", "updateLog", "deleteLog", "clearAll", "importRaw"}

\* C12: after a store call of the view that changed the store resolved, the
\* list the view holds is the list getAllLogs() returns, mapped to entries:
\* the same entries with the same field values in the same order.
C12_ViewListIsListAll ==
    (last.ok /\ last.op \in ViewWrites) => logs = Parsed(ListAll)

\* C13: when addLog, updateLog, deleteLog or clearAll called by a handler
\* of the view rejects, the list the view holds is what it was before.
C13_FailedCallKeepsList ==
    [][ (last' # last /\ ~last'.ok
         /\ last'.op \in {"addLog", "updateLog", "deleteLog", "clearAll"}) =>
            logs' = logs ]_vars

\* a call of the view rejected while the list held an entry
C13_Witness ==
    /\ last.op \in {"updateLog", "deleteLog", "clearAll"}
    /\ ~last.ok
    /\ Len(logs) >= 1

OnDay(s, key) ==
    {k \in 1..Len(logs) :
        logs[k].substance = s /\ getDateKey(DateParse(logs[k].timestamp)) = key}

\* the magnitude C18 gives an entry: the weight of the dosage text, else
\* the number the text starts with, else 1
StatedMagnitude(l) ==
    IF l.dosage \in {Undefined, Null, ""} THEN One
    ELSE IF l.dosage \in DOMAIN DOSAGE_WEIGHTS THEN DOSAGE_WEIGHTS[l.dosage]
    ELSE IF parseFloat(l.dosage) # NaN THEN parseFloat(l.dosage).value
    ELSE One

RECURSIVE SumStated(_)
SumStated(S) ==
    IF S = {} THEN 0
    ELSE LET k == CHOOSE k \in S : TRUE
         IN  StatedMagnitude(logs[k]) + SumStated(S \ {k})

\* C18: every bucket of the usage-over-time series is the sum, over the
\* entries of that substance and day, of the weight of the dosage text when
\* it is a key of DOSAGE_WEIGHTS, else of the number the text starts with,
\* else of 1.
C18_MagnitudeChain ==
    LET u == usageOverTime IN
    \A j \in 1..Len(u.labels) :
        \A s \in DOMAIN u.series :
            u.series[s][j] = SumStated(OnDay(s, u.labels[j]))

\* the day number of a date key
DayNumber(key) == MakeDay(key[1], key[2], key[3])

\* C19: for a window of N days the labels are N consecutive local days,
\* oldest first, the last one today, and every series has one value per
\* label; for the "All" window there is no label.
C19_ConsecutiveDayBuckets ==
    LET u == usageOverTime
        labels == u.labels
    IN
    /\ trendDays = AllTime => labels = <<>>
    /\ trendDays # AllTime =>
        /\ Len(labels) = trendDays.n
        /\ labels[Len(labels)] = getDateKey(DateNow)
        /\ \A j \in 1..(Len(labels) - 1) :
              DayNumber(labels[j + 1]) = DayNumber(labels[j]) + 1
    /\ \A s \in DOMAIN u.series : Len(u.series[s]) = Len(labels)

\* a 7-day window that starts in December and ends in January, with an
\* entry counted in it
C19_Witness ==
    /\ trendDays = Days(7)
    /\ usageOverTime.labels[1][2] = 12
    /\ usageOverTime.labels[7][2] = 1
    /\ \E s \in DOMAIN usageOverTime.series : usageOverTime.series[s][7] > 0

\* the entries of substance s at or after now - N days (all of them when
\* the window is "All")
InWindow(s) ==
    {k \in 1..Len(logs) :
        /\ logs[k].substance = s
        /\ trendDays = AllTime
           \/ DateParse(logs[k].timestamp) >= DateNow - trendDays.n * DayLength}

\* C20: the frequency of a substance is the number of its entries at or
\* after now - N days, and of all its entries when the window is "All";
\* a substance with no such entry has no count.
C20_FrequencyWindow ==
    /\ \A s \in DOMAIN frequencyCounts : frequencyCounts[s] = Cardinality(InWindow(s))
    /\ \A k \in 1..Len(logs) :
          InWindow(logs[k].substance) # {} => logs[k].substance \in DOMAIN frequencyCounts

\* one entry ten days old and one a day old, of one substance, in the 7-day
\* window: the count is 1
C20_Witness ==
    /\ trendDays = Days(7)
    /\ Len(logs) = 2
    /\ logs[1].substance = logs[2].substance
    /\ DateParse(logs[1].timestamp) = DateNow - 10 * DayLength
    /\ DateParse(logs[2].timestamp) = DateNow - DayLength
    /\ frequencyCounts[logs[1].substance] = 1

\* the occurrences of tag f in the entries inside the window that pass the
\* filter: (entry, position in its feelings) pairs
Occurrences(f) ==
    {<<k, j>> \in (1..Len(logs)) \X (1..2) :
        /\ trendDays = AllTime
           \/ DateParse(logs[k].timestamp) >= DateNow - trendDays.n * DayLength
        /\ trendFilterSubstance = "All" \/ logs[k].substance = trendFilterSubstance
        /\ logs[k].feelings.kind = "array"
        /\ j <= Len(logs[k].feelings.items)
        /\ logs[k].feelings.items[j] = f}

\* C21: for each feeling tag the count is the number of its occurrences
\* over the entries inside the window, over all substances under "All" and
\* over the chosen substance otherwise; entries without feelings add
\* nothing, and a tag with no occurrence has no count.
C21_FeelingCounts ==
    \A f \in {"happy", "tired"} :
        IF Occurrences(f) = {}
        THEN f \notin DOMAIN feelingsCounts
        ELSE f \in DOMAIN feelingsCounts /\ feelingsCounts[f] = Cardinality(Occurrences(f))

\* filter Alcohol, 14 days: a Marijuana entry and an Alcohol entry, both
\* tagged happy, give a count of one
C21_Witness ==
    /\ trendFilterSubstance = "Alcohol"
    /\ trendDays = Days(14)
    /\ Len(logs) = 2
    /\ logs[1].substance = "Marijuana" /\ logs[1].feelings = FeelingsOf(<<"happy">>)
    /\ logs[2].substance = "Alcohol" /\ logs[2].feelings = FeelingsOf(<<"happy">>)
    /\ feelingsCounts = ("happy" :> 1)

\* C22: whatever the list, the window and the day, no chart of the Trends
\* section (drawn when the list is not empty) divides by zero: the scale
\* maximum of the multi-line chart and of the two bar charts is not 0.
C22_NoDivisionByZero ==
    Len(logs) > 0 =>
        LET line == MultiLineChart(usageOverTime.labels, usageOverTime.series)
            vertical == VerticalBarChart(Items(frequencyCounts))
            horizontal == HorizontalBarChart(Items(feelingsCounts))
        IN  /\ line.xDivisor # 0 /\ line.yDivisor # 0
            /\ vertical.bwDivisor # 0 /\ vertical.hDivisor # 0
            /\ horizontal.wDivisor # 0

\* the entries the usage-over-time transform counts: a substance of the
\* series, on one of the labelled days
Counted ==
    {k \in 1..Len(logs) :
        /\ logs[k].substance \in DOMAIN usageOverTime.series
        /\ IndexOf(usageOverTime.labels, getDateKey(DateParse(logs[k].timestamp))) >= 1}

\* C29: every counted entry adds a magnitude above 0 whatever its dosage
\* text, so no bucket is below 0 and a list never has a bucket below the
\* same bucket of the list without its last entry.
C29_MagnitudePositive ==
    LET u == usageOverTime
        shorter == aggregateUsageOverTime(SubSeq(logs, 1, Len(logs) - 1), trendDays,
                                          SUBSTANCE_OPTIONS)
    IN  /\ \A k \in Counted : Magnitude(logs[k]) > 0
        /\ \A s \in DOMAIN u.series : \A j \in 1..Len(u.labels) :
              /\ u.series[s][j] >= 0
              /\ Len(logs) > 0 => u.series[s][j] >= shorter.series[s][j]

\* C26: updateLog(row) with an id no row of the table has resolves once
\* the store is initialized, inserts no row and changes none: the database
\* in memory, and so what getAllLogs() returns, is what it was.
C26_UpdateAbsentIdChangesNothing ==
    [][ (/\ last'.op = "updateLog"
         /\ Usable(ensureInit.db)
         /\ ~HasId(ensureInit.db, last'.arg.id)) =>
            /\ initialized => last'.ok
            /\ last'.ok => db' = ensureInit.db
            /\ ensureInit'.db = ensureInit.db ]_vars

\* an updateLog resolved on a table that holds a row, none with its id
C26_Witness ==
    /\ last.op = "updateLog" /\ last.ok
    /\ RowCount(db) >= 1
    /\ ~HasId(db, last.arg.id)

\* C28: whatever is created, deleted, cleared, imported and paged through,
\* the current page is between 1 and max(1, totalPages), and a list that is
\* not empty shows at least one entry.
C28_CurrentPageInRange ==
    /\ 1 <= currentPage
    /\ currentPage <= (IF totalPages < 1 THEN 1 ELSE totalPages)
    /\ logs # <<>> => paginatedLogs # <<>>

\* C27: a fetch event is answered with what the network returned whenever
\* fetch resolved, a copy being put in the cache when the method is GET and
\* none otherwise; only when fetch rejected is it answered from the cache,
\* with the cached response of the request if there is one and with the
\* cached index.html otherwise.
C27_NetworkFirst ==
    [][ (event.pc = "fetch" /\ event'.pc = "answered") =>
            LET request == event.request IN
            /\ event'.request = request
            /\ event'.network # NetworkError =>
                  /\ event'.reply = event'.network
                  /\ event'.reply.from = "network"
                  /\ puts' \ puts \subseteq {[request |-> request, copy |-> event'.reply]}
                  /\ request.method = "GET" =>
                        [request |-> request, copy |-> event'.reply] \in puts'
                  /\ request.method # "GET" => puts' = puts
            /\ event'.network = NetworkError =>
                  /\ puts' = puts
                  /\ event'.reply =
                        IF request.method = "GET" /\ request.url \in DOMAIN cache
                        THEN cache[request.url]
                        ELSE cache["./index.html"] ]_vars

\* off the network, a script fetched before is answered with the copy the
\* worker put in the cache
C27_Witness ==
    /\ event.pc = "answered"
    /\ event.network = NetworkError
    /\ event.request = [url |-> "./assets/index.js", method |-> "GET"]
    /\ event.reply = Response("./assets/index.js", "network", 200)

\* C30: locateWasm returns the local URL only when /sql-wasm.wasm answers
\* ok and is the wasm file, never for a response that is not wasm, and the
\* CDN URL in every other case, after one fetch.
C30_LocalOnlyWhenWasm ==
    [][ (wasmUrl = NotLocated /\ wasmUrl' # NotLocated) =>
            /\ wasmUrl'.fetches = 1
            /\ wasmUrl'.url \in {LocalUrl, CdnUrl}
            /\ wasmUrl'.url = LocalUrl =>
                  server.kind = "response" /\ server.ok /\ server.wasm
            /\ (server.kind = "rejects" \/ ~server.ok) => wasmUrl'.url = CdnUrl ]_vars

\* every call made has resolved or rejected, and every write it made landed
Settled ==
    /\ calls # <<>>
    /\ \A k \in 1..Len(calls) : calls[k].pc = "done" /\ calls[k].write # "failed"

\* C23: when init() and the calls started while it was under way have all
\* come to their end, the database in memory holds the row of every addLog
\* that resolved (unless an importRaw replaced the table), and it is what
\* DB_KEY holds whenever something was written.
C23_LateInitKeepsHandle ==
    (Settled /\ calls[1].op = "init") =>
        /\ (\E k \in 1..Len(calls) : calls[k].write = "ok") =>
              db # NoDb /\ stored = dbExport(db)
        /\ \A k \in 1..Len(calls) :
              (/\ calls[k].op = "addLog" /\ calls[k].ok
               /\ \A j \in 1..Len(calls) : calls[j].op # "importRaw") =>
                  db # NoDb /\ HasId(db, calls[k].arg.id)

\* C24: when addLog calls with ids of their own, made one while the other
\* was under way on an initialized store, have all resolved and their
\* writes have landed in the order issued, the database in memory and the
\* blob under DB_KEY both hold the row of each.
C24_OverlappingCreatesKept ==
    Settled =>
        \A k \in 1..Len(calls) :
            (calls[k].op = "addLog" /\ calls[k].ok) =>
                /\ HasId(db, calls[k].arg.id)
                /\ stored # NoBlob
                /\ \E j \in 1..Len(stored.logs) : stored.logs[j].id = calls[k].arg.id

\* two addLog calls resolved, the second made before the write of the first
\* had landed
C24_Witness ==
    /\ Settled
    /\ Len(calls) = 2
    /\ calls[1].ok /\ calls[2].ok
    /\ calls[2].during = {1}
    /\ calls[1].arg.id # calls[2].arg.id
    /\ Len(db.logs) = 2

\* C25: a call of the store that resolved (getAllLogs, addLog, importRaw,
\* init) used SQL and db with initialized set: ensureInit() had completed.
C25_InitializedBeforeUse ==
    \A k \in 1..Len(calls) :
        (calls[k].pc \in {"setItem", "done"} /\ calls[k].ok) => calls[k].ready

====
